---- MODULE Spec2Model ----
(***************************************************************************)
(* offline-fetch: offlineFetch(url, options), a caching decorator in front *)
(* of fetch.  The model follows src/src/offline-fetch.js: one slot per     *)
(* invocation of offlineFetch, one action per callback of its promise      *)
(* chain, the storage providers and the clock as shared state.              *)
(***************************************************************************)
EXTENDS Integers, Sequences, FiniteSets, TLC

(* ---------------------------------------------------------------------- *)
(* Bounds of the model                                                     *)
(* ---------------------------------------------------------------------- *)

\* number of invocation slots (invocations that can be in progress together)
NumCalls == 2

\* number of times the clock advances in one behaviour
MaxTicks == 2

(* ---------------------------------------------------------------------- *)
(* Values                                                                  *)
(* ---------------------------------------------------------------------- *)

Calls == 1 .. NumCalls

\* an optional option value: <<>> when the property is not given, <<v>> when it is
None == << >>

Some(v) == << v >>

\* strings that are hashed are sequences of character codes
EmptyUrl == << >>

UrlA == << 97 >>

UrlB == << 98 >>

\* "GET", "POST" and "|" as character codes
MethodCodes(m) == IF m = "POST" THEN << 80, 79, 83, 84 >> ELSE << 71, 69, 84 >>

Bar == << 124 >>

Providers == { "sessionStorage", "localStorage" }

\* no item under a key: getItem returns null
NoItem == [ fmt |-> "none" ]

TimedOutMessage == "Promise Timed Out"

NetErrors == { "Failed to fetch", TimedOutMessage }

\* the error of a storage provider whose getItem or setItem fails, the error of
\* JSON.parse on a string that is not JSON, and the error of reading an
\* identifier that is not declared
StorageErrorMessage == "QuotaExceededError"

SyntaxErrorMessage == "Unexpected token in JSON"

ReferenceErrorMessage == "fetch is not defined"

\* getItem returned a promise that rejects, and getItem threw
RejectedItem == [ fmt |-> "rejected" ]

ThrownItem == [ fmt |-> "thrown" ]

\* a string under the key that is not JSON
GarbageItem == [ fmt |-> "garbage" ]

\* the live responses the network can answer with
Responses ==
    { [ status |-> 200, statusText |-> "OK", contentType |-> "application/json", body |-> "b1" ],
      [ status |-> 299, statusText |-> "", contentType |-> "Text/HTML; charset=utf-8", body |-> "b2" ],
      [ status |-> 200, statusText |-> "OK", contentType |-> "image/png", body |-> "b2" ],
      [ status |-> 200, statusText |-> "OK", contentType |-> "", body |-> "b1" ],
      [ status |-> 300, statusText |-> "", contentType |-> "text/html", body |-> "b1" ],
      [ status |-> 404, statusText |-> "Not Found", contentType |-> "application/json", body |-> "b2" ] }

(* ---------------------------------------------------------------------- *)
(* Pure helpers                                                            *)
(* ---------------------------------------------------------------------- *)

\* A 32 bit integer is kept as its two 16 bit halves << hi, lo >>.
\* ((hash << 5) - hash) + char, then hash & hash: 31 * hash + char modulo 2^32
HashStep(h, char) ==
    LET low == 31 * h[2] + char
    IN  << (31 * h[1] + (low \div 65536)) % 65536, low % 65536 >>

\* the signed value of the 32 bits
ToInt32(h) == IF h[1] >= 32768 THEN (h[1] - 65536) * 65536 + h[2] ELSE h[1] * 65536 + h[2]

RECURSIVE HashFrom(_, _, _)
HashFrom(value, i, h) ==
    IF i > Len(value) THEN h ELSE HashFrom(value, i + 1, HashStep(h, value[i]))

\* stringToHash(value)
stringToHash(value) == IF Len(value) = 0 THEN 0 ELSE ToInt32(HashFrom(value, 1, << 0, 0 >>))

\* x || d followed by parseInt, for an option that is absent or an integer
OrDefault(opt, d) == IF opt = None \/ opt = Some(0) THEN d ELSE opt[1]

\* the delay a timer set with setTimeout(fn, ms) waits at least
TimerDelay(ms) == IF ms > 0 THEN ms ELSE 0

\* the content types matched by /application\/json/i or /text\//i
JsonOrTextTypes == { "application/json", "Text/HTML; charset=utf-8", "text/html" }

\* JSON.stringify of a record and JSON.parse of the stored string
Stringify(rec) ==
    [ fmt |-> "string",
      text |-> << rec.status, rec.statusText, rec.contentType, rec.content, rec.storedAt >> ]

Parse(item) ==
    [ fmt |-> "object", status |-> item.text[1], statusText |-> item.text[2],
      contentType |-> item.text[3], content |-> item.text[4], storedAt |-> item.text[5] ]

(* ---------------------------------------------------------------------- *)
(* Arguments of offlineFetch                                               *)
(* ---------------------------------------------------------------------- *)

\* options.offline when it is not given (also the {} that offline: true maps to)
NoOffline ==
    [ kind |-> "absent", storage |-> "absent", timeout |-> None, retries |-> None,
      retryDelay |-> None, expires |-> None, renew |-> FALSE, cacheKeyGenerator |-> FALSE ]

OfflineTrue == [ NoOffline EXCEPT !.kind = "true" ]

OfflineFalse == [ NoOffline EXCEPT !.kind = "false" ]

\* options.offline as an object with the given properties
OfflineObject(storage, timeout, retries, retryDelay, expires, renew, keygen) ==
    [ kind |-> "object", storage |-> storage, timeout |-> timeout, retries |-> retries,
      retryDelay |-> retryDelay, expires |-> expires, renew |-> renew,
      cacheKeyGenerator |-> keygen ]

\* the options argument: undefined, null, a non-object, or an object
OptionsOfKind(kind) == [ kind |-> kind, method |-> "absent", offline |-> NoOffline ]

OptionsObject(method, offline) == [ kind |-> "object", method |-> method, offline |-> offline ]

\* a variant of OfflineEngaged: offline: false is taken as given
OfflineEngagedWhenDefined(options) ==
    options.kind = "object" /\ options.offline.kind \in { "false", "true", "object" }

\* line 51: !options || !options.offline
OfflineEngaged(options) == options.kind = "object" /\ options.offline.kind \in { "true", "object" }

\* line 54: offline: true assumes the defaults
offlineOptions(options) ==
    IF options.offline.kind = "object" THEN options.offline ELSE NoOffline

\* a variant of storageOf: the storage option is not looked at
storageOfSession(options) == "sessionStorage"

\* line 57: the name of the storage provider
storageOf(options) ==
    IF offlineOptions(options).storage = "absent" THEN "sessionStorage"
    ELSE offlineOptions(options).storage

DefaultTimeout == 10000

\* line 60
timeoutOf(options) == OrDefault(offlineOptions(options).timeout, DefaultTimeout)

\* line 63
retriesOf(options) == OrDefault(offlineOptions(options).retries, -1)

\* line 66
retryDelayOf(options) == OrDefault(offlineOptions(options).retryDelay, -1)

\* line 69
expiresOf(options) ==
    IF offlineOptions(options).expires = None THEN -1 ELSE offlineOptions(options).expires[1]

\* line 72
renewOf(options) == offlineOptions(options).renew

\* line 78
methodOf(options) == IF options.method \in { "absent", "null" } THEN "GET" ELSE options.method

\* line 84
requestHash(url, options) ==
    [ ns |-> "offline:", id |-> << stringToHash(MethodCodes(methodOf(options)) \o Bar \o url) >> ]

\* the key a caller's cacheKeyGenerator(url, options, hash) returns: 'myapp:' + url
GeneratedKey(url, options, hash) == [ ns |-> "myapp:", id |-> url ]

\* a variant of cacheKey: the generator of the caller is not called
cacheKeyWithoutGenerator(url, options) == requestHash(url, options)

\* line 87
cacheKey(url, options) ==
    IF options.offline.cacheKeyGenerator
    THEN GeneratedKey(url, options, requestHash(url, options))
    ELSE requestHash(url, options)

\* lines 90-94: properties that are null are deleted from options
StripNulls(options) ==
    IF options.method = "null" THEN [ options EXCEPT !.method = "absent" ] ELSE options

Urls == { EmptyUrl, UrlA, UrlB }

Methods == { "absent", "null", "GET", "POST" }

Keys ==
    { requestHash(u, OptionsObject(m, NoOffline)) : u \in Urls, m \in Methods }
        \cup { GeneratedKey(u, OptionsObject("absent", NoOffline), 0) : u \in Urls }

(* ---------------------------------------------------------------------- *)
(* State                                                                   *)
(* ---------------------------------------------------------------------- *)

VARIABLES
    call,     \* call[c]: the invocation of offlineFetch in slot c (its closure)
    store,    \* store[p][k]: the item under key k of storage provider p
    now,      \* Date.now()
    ticks     \* number of times the clock has advanced

vars == << call, store, now, ticks >>

\* an invocation has not settled: the promise it returned is pending
NoResult ==
    [ kind |-> "none", from |-> "none", status |-> 0, statusText |-> "", contentType |-> "",
      body |-> "", xOfflineCache |-> "none", error |-> "" ]

\* no write to storage is under way
NoPending ==
    [ on |-> FALSE, provider |-> "sessionStorage", key |-> requestHash(EmptyUrl, OptionsOfKind("undefined")),
      status |-> 0, statusText |-> "", contentType |-> "", content |-> "" ]

\* the arguments of an invocation and the environment it reads when it is called:
\* navigator.onLine === false, and whether the global fetch is there (hasFetch
\* is false when fetch is null or undefined)
Input(url, options, isOffline, hasFetch) ==
    [ url |-> url, options |-> options, isOffline |-> isOffline, hasFetch |-> hasFetch,
      fetchDeclared |-> TRUE ]

\* an environment that declares no fetch at all: the identifier does not resolve
InputWithoutFetch(url, options) ==
    [ Input(url, options, FALSE, FALSE) EXCEPT !.fetchDeclared = FALSE ]

NoInput == Input(EmptyUrl, OptionsOfKind("undefined"), FALSE, TRUE)

\* fetch has not settled
NoAnswer ==
    [ ok |-> FALSE, status |-> 0, statusText |-> "", contentType |-> "", body |-> "",
      message |-> "" ]

\* a free slot.  at, first, net, written, lost and after record what happened
\* to the invocation: the time its cache read was continued, how its first
\* attempt ended, what its latest fetch settled with, the item it stored,
\* whether its write failed, and the invocations that had settled when it was
\* called
IdleCall ==
    [ pc |-> "idle", in |-> NoInput, got |-> NoItem, cachedItem |-> NoItem, at |-> 0,
      deadline |-> 0,
      n |-> 0, late |-> FALSE, fetches |-> 0, fetchArgs |-> {}, first |-> "none",
      net |-> NoAnswer, written |-> NoItem, lost |-> FALSE,
      gets |-> [ p \in Providers |-> 0 ], sets |-> [ p \in Providers |-> 0 ],
      result |-> NoResult, pending |-> NoPending, after |-> {} ]

Init ==
    /\ call = [ c \in Calls |-> IdleCall ]
    /\ store = [ p \in Providers |-> [ k \in Keys |-> NoItem ] ]
    /\ now = 0
    /\ ticks = 0

(* ---------------------------------------------------------------------- *)
(* Results                                                                 *)
(* ---------------------------------------------------------------------- *)

Rejected(message) == [ NoResult EXCEPT !.kind = "rejected", !.error = message ]

\* offlineFetch threw before it returned a promise
Thrown(message) == [ NoResult EXCEPT !.kind = "thrown", !.error = message ]

\* a variant of cachedResponse: the status and the status text of the record
\* are not given to the Response, which takes its defaults
cachedResponseWithoutStatus(cachedItem, from) ==
    [ kind |-> "resolved", from |-> from, status |-> 200, statusText |-> "",
      contentType |-> cachedItem.contentType, body |-> cachedItem.content,
      xOfflineCache |-> "none", error |-> "" ]

\* lines 107-113: new Response(content, { status, statusText, headers: { 'Content-Type' } })
cachedResponse(cachedItem, from) ==
    [ kind |-> "resolved", from |-> from, status |-> cachedItem.status,
      statusText |-> cachedItem.statusText, contentType |-> cachedItem.contentType,
      body |-> cachedItem.content, xOfflineCache |-> "none", error |-> "" ]

\* line 162, line 215 and line 51: the response of fetch, returned as it is
liveResponse(res, from) ==
    [ kind |-> "resolved", from |-> from, status |-> res.status, statusText |-> res.statusText,
      contentType |-> res.contentType, body |-> res.body, xOfflineCache |-> "none",
      error |-> "" ]

\* line 100: a stored string is parsed, anything else is taken as it is
Decode(item) == IF item.fmt = "string" THEN Parse(item) ELSE item

\* a variant of cacheExpired: a record expires as soon as its age reaches expires
cacheExpiredAtWindow(cachedItem, expires, t) ==
    IF cachedItem # NoItem /\ expires > 0 THEN (t - cachedItem.storedAt) >= expires ELSE FALSE

\* a variant of cacheExpired: without a window of expiry a record is expired
cacheExpiredByDefault(cachedItem, expires, t) ==
    IF cachedItem # NoItem /\ expires > 0 THEN (t - cachedItem.storedAt) > expires ELSE TRUE

\* line 117
cacheExpired(cachedItem, expires, t) ==
    IF cachedItem # NoItem /\ expires > 0 THEN (t - cachedItem.storedAt) > expires ELSE FALSE

\* a variant of Cacheable: the content type is not looked at
CacheableAnyType(res) == res.status >= 200 /\ res.status <= 299

\* lines 135-140: the status is 2xx and the content type is JSON or text
Cacheable(res) ==
    /\ res.status >= 200
    /\ res.status <= 299
    /\ res.contentType \in JsonOrTextTypes

\* a call to fetch(url, options) by the invocation
WithFetch(rec, options) ==
    [ rec EXCEPT !.fetches = @ + 1,
                 !.fetchArgs = @ \cup { << rec.in.url, options >> } ]

\* the promise returned by offlineFetch settles (a timer still set is cleared or spent)
Settle(rec, result) == [ rec EXCEPT !.pc = "done", !.result = result, !.deadline = 0 ]

(* ---------------------------------------------------------------------- *)
(* offlineFetch(url, options)                                              *)
(* ---------------------------------------------------------------------- *)

\* a variant of fetchRetryCount: one attempt more than the code makes
fetchRetryCountOneMore(retries) == IF retries = 0 THEN 3 ELSE retries + 1

\* fetchRetry, lines 205-206
fetchRetryCount(retries) == IF retries = 0 THEN 3 ELSE retries

fetchRetryDelay(retryDelay) == IF retryDelay = 0 THEN 1000 ELSE retryDelay

\* lines 46-48: the error the arguments are rejected with, "" when they are
\* accepted; line 48 reads the identifier fetch, which throws when no fetch is declared
validate(in) ==
    IF in.url = EmptyUrl THEN "Please provide a URL"
    ELSE IF in.options.kind = "nonobject" THEN "If defined, options must be of type object"
    ELSE IF ~ in.fetchDeclared THEN ReferenceErrorMessage
    ELSE IF ~ in.hasFetch THEN "fetch not supported, are you missing the window.fetch polyfill?"
    ELSE ""

\* a variant of getItem: the provider is asked twice
getItemTwice(rec, in, items) ==
    [ rec EXCEPT !.pc = "lookup",
                 !.gets[storageOf(in.options)] = @ + 2,
                 !.got = items[storageOf(in.options)][cacheKey(in.url, in.options)] ]

\* line 97: storage.getItem(cacheKey) on the provider the options name
getItem(rec, in, items) ==
    [ rec EXCEPT !.pc = "lookup",
                 !.gets[storageOf(in.options)] = @ + 1,
                 !.got = items[storageOf(in.options)][cacheKey(in.url, in.options)] ]

\* a variant of offlineFetch: fetch is called before the cache has been read
offlineFetchEager(rec, in, items) ==
    IF validate(in) = ReferenceErrorMessage
    THEN Settle(rec, Thrown(ReferenceErrorMessage))
    ELSE IF validate(in) # ""
    THEN Settle(rec, Rejected(validate(in)))
    ELSE IF ~ OfflineEngaged(in.options)
    THEN [ WithFetch(rec, in.options) EXCEPT !.pc = "plain" ]
    ELSE getItem(WithFetch(rec, in.options), in, items)

\* lines 46-97: the synchronous part of offlineFetch, up to storage.getItem(cacheKey)
offlineFetch(rec, in, items) ==
    IF validate(in) = ReferenceErrorMessage
    THEN Settle(rec, Thrown(ReferenceErrorMessage))
    ELSE IF validate(in) # ""
    THEN Settle(rec, Rejected(validate(in)))
    ELSE IF ~ OfflineEngaged(in.options)
    THEN [ WithFetch(rec, in.options) EXCEPT !.pc = "plain" ]
    ELSE getItem(rec, in, items)

\* a slot is free when its last invocation has been returned and nothing it
\* started is still under way
Free(c) == call[c].pc = "idle" /\ ~ call[c].late /\ ~ call[c].pending.on

\* an invocation takes the first free slot
Dispatch(c, in) ==
    /\ Free(c)
    /\ \A d \in Calls : d < c => ~ Free(d)
    /\ call' = [ call EXCEPT ![c] =
                   offlineFetch([ IdleCall EXCEPT !.in = in,
                                                  !.after = { d \in Calls : call[d].pc = "done" } ],
                                in, store) ]
    /\ UNCHANGED << store, now, ticks >>

\* a variant of decide: renew and expiry are looked at before the offline indicator
decideRenewFirst(cachedItem, isOffline, expired, renew) ==
    IF cachedItem = NoItem \/ renew \/ expired THEN "live"
    ELSE IF isOffline THEN "cache (offline)"
    ELSE "cache"

\* a variant of decide: renew is not looked at
decideIgnoringRenew(cachedItem, isOffline, expired, renew) ==
    IF cachedItem # NoItem /\ isOffline THEN "cache (offline)"
    ELSE IF cachedItem # NoItem /\ ~ expired THEN "cache"
    ELSE "live"

\* a variant of decide: an expired record is revalidated before the offline
\* indicator is looked at
decideExpiryFirst(cachedItem, isOffline, expired, renew) ==
    IF cachedItem # NoItem /\ expired THEN "live"
    ELSE IF cachedItem # NoItem /\ isOffline THEN "cache (offline)"
    ELSE IF cachedItem # NoItem /\ ~ renew THEN "cache"
    ELSE "live"

\* lines 119-132: where the response comes from, the first match deciding
decide(cachedItem, isOffline, expired, renew) ==
    IF cachedItem # NoItem /\ isOffline THEN "cache (offline)"
    ELSE IF cachedItem # NoItem /\ ~ expired /\ ~ renew THEN "cache"
    ELSE "live"

\* a variant of onCachedItem: a record that has expired is dropped
onCachedItemDroppingExpired(rec, t) ==
    LET options == rec.in.options
        decoded == Decode(rec.got)
        expired == cacheExpired(decoded, expiresOf(options), t)
        cachedItem == IF expired THEN NoItem ELSE decoded
        found == [ rec EXCEPT !.cachedItem = cachedItem, !.at = t ]
        source == decide(cachedItem, rec.in.isOffline, FALSE, renewOf(options))
    IN  IF source = "live"
        THEN [ WithFetch(found, StripNulls(options)) EXCEPT
                 !.pc = "live",
                 !.deadline = t + TimerDelay(timeoutOf(options)) ]
        ELSE Settle(found, cachedResponse(cachedItem, source))

\* lines 97-132: the continuation of the cache read, run at time t; JSON.parse
\* throws on a string that is not JSON and the promise is rejected with its error
onCachedItem(rec, t) ==
    LET options == rec.in.options
        cachedItem == Decode(rec.got)
        expired == cacheExpired(cachedItem, expiresOf(options), t)
        found == [ rec EXCEPT !.cachedItem = cachedItem, !.at = t ]
        source == decide(cachedItem, rec.in.isOffline, expired, renewOf(options))
    IN  IF rec.got = GarbageItem
        THEN Settle([ rec EXCEPT !.at = t ], Rejected(SyntaxErrorMessage))
        ELSE IF source = "live"
        THEN [ WithFetch(found, StripNulls(options)) EXCEPT
                 !.pc = "live",
                 !.deadline = t + TimerDelay(timeoutOf(options)) ]
        ELSE Settle(found, cachedResponse(cachedItem, source))

\* a variant of Lookup: a record that is served from the cache is stored again
\* with the time of the hit
LookupRefreshing(c) ==
    /\ call[c].pc = "lookup"
    /\ call' = [ call EXCEPT ![c] = onCachedItem(@, now) ]
    /\ store' = IF onCachedItem(call[c], now).result.from \in { "cache", "cache (offline)" }
                THEN [ store EXCEPT
                         ![storageOf(call[c].in.options)][cacheKey(call[c].in.url, call[c].in.options)] =
                             Stringify([ Decode(call[c].got) EXCEPT !.storedAt = now ]) ]
                ELSE store
    /\ UNCHANGED << now, ticks >>

Lookup(c) ==
    /\ call[c].pc = "lookup"
    /\ call' = [ call EXCEPT ![c] = onCachedItem(@, now) ]
    /\ UNCHANGED << store, now, ticks >>

\* lines 144-156: what res.clone().text().then(...) will store
ToStore(rec, res) ==
    [ on |-> TRUE, provider |-> storageOf(rec.in.options),
      key |-> cacheKey(rec.in.url, rec.in.options), status |-> res.status,
      statusText |-> res.statusText, contentType |-> res.contentType, content |-> res.body ]

\* what fetch settled with: a response, or an error
Answer(res) ==
    [ ok |-> TRUE, status |-> res.status, statusText |-> res.statusText,
      contentType |-> res.contentType, body |-> res.body, message |-> "" ]

Failure(message) == [ NoAnswer EXCEPT !.message = message ]

\* a variant of onLive: the response is returned and nothing is stored
onLiveWithoutWrite(rec, res) == Settle(rec, liveResponse(res, "live"))

\* a variant of onLive: a response that is not 2xx is replaced by the record found
onLiveOrRecord(rec, res) ==
    IF (res.status < 200 \/ res.status > 299) /\ rec.cachedItem # NoItem
    THEN Settle(rec, cachedResponse(rec.cachedItem, "cache"))
    ELSE Settle([ rec EXCEPT !.pending = IF Cacheable(res) THEN ToStore(rec, res) ELSE @ ],
                liveResponse(res, "live"))

\* lines 132-163: the live response arrived before the timer fired
onLive(rec, res) ==
    Settle([ rec EXCEPT !.pending = IF Cacheable(res) THEN ToStore(rec, res) ELSE @ ],
           liveResponse(res, "live"))

LiveResolve(c, res) ==
    /\ call[c].pc = "live"
    /\ call' = [ call EXCEPT ![c] = onLive([ @ EXCEPT !.first = "ok", !.net = Answer(res) ], res) ]
    /\ UNCHANGED << store, now, ticks >>

\* a variant of recover: a timeout is rejected even when a record was found
recoverWithoutFallback(timedout, hasCached, retries) ==
    IF ~ timedout /\ retries # 0 THEN "retrying" ELSE "reject"

\* a variant of recover: a timeout without a record is retried like any error
recoverRetryingTimeouts(timedout, hasCached, retries) ==
    IF timedout /\ hasCached THEN "cache (timedout)"
    ELSE IF retries # 0 THEN "retrying"
    ELSE "reject"

\* lines 166-187: what is done about the error of the first attempt
recover(timedout, hasCached, retries) ==
    IF timedout /\ hasCached THEN "cache (timedout)"
    ELSE IF ~ timedout /\ retries # 0 THEN "retrying"
    ELSE "reject"

\* lines 164-188: the catch of the first attempt
onError(rec, message) ==
    LET options == rec.in.options
        action == recover(message = TimedOutMessage, rec.cachedItem # NoItem, retriesOf(options))
    IN  IF action = "cache (timedout)"
        THEN Settle(rec, cachedResponse(rec.cachedItem, action))
        ELSE IF action = "retrying"
        THEN [ WithFetch(rec, StripNulls(options)) EXCEPT
                 !.pc = "retry",
                 !.deadline = 0,
                 !.n = fetchRetryCount(retriesOf(options)) ]
        ELSE Settle(rec, Rejected(message))

LiveReject(c, message) ==
    /\ call[c].pc = "live"
    /\ call' = [ call EXCEPT ![c] =
                   onError([ @ EXCEPT !.first = message, !.net = Failure(message) ], message) ]
    /\ UNCHANGED << store, now, ticks >>

\* a variant of Timeout: the record is read again when the timer fires
TimeoutRereading(c) ==
    /\ call[c].pc = "live"
    /\ now >= call[c].deadline
    /\ call' = [ call EXCEPT ![c] =
                   onError([ call[c] EXCEPT
                               !.first = "timer",
                               !.late = TRUE,
                               !.cachedItem =
                                   Decode(store[storageOf(call[c].in.options)]
                                               [cacheKey(call[c].in.url, call[c].in.options)]) ],
                           TimedOutMessage) ]
    /\ UNCHANGED << store, now, ticks >>

\* promiseTimeout, lines 284-286: the timer fires while fetch is pending
Timeout(c) ==
    /\ call[c].pc = "live"
    /\ now >= call[c].deadline
    /\ call' = [ call EXCEPT ![c] =
                   onError([ @ EXCEPT !.first = "timer", !.late = TRUE ], TimedOutMessage) ]
    /\ UNCHANGED << store, now, ticks >>

\* a variant of onLateSettle: the late response is stored
onLateSettleStoring(rec, res) ==
    [ rec EXCEPT !.late = FALSE,
                 !.pending = IF Cacheable(res) THEN ToStore(rec, res) ELSE @ ]

\* a variant of onLateSettle: the late response is handed to the caller
onLateSettleReturning(rec, res) ==
    [ rec EXCEPT !.late = FALSE, !.result = liveResponse(res, "live") ]

\* promiseTimeout, lines 288-295: fetch settles after the timer has rejected;
\* resolve(res) and reject(err) on a settled promise do nothing
onLateSettle(rec, res) == [ rec EXCEPT !.late = FALSE ]

LateSettle(c) ==
    /\ call[c].late
    /\ \E res \in Responses : call' = [ call EXCEPT ![c] = onLateSettle(@, res) ]
    /\ UNCHANGED << store, now, ticks >>

\* a variant of RetryResolve: the response of a retry is stored like the
\* response of the first attempt
RetryResolveStoring(c, res) ==
    /\ call[c].pc = "retry"
    /\ call' = [ call EXCEPT ![c] =
                   Settle([ call[c] EXCEPT
                              !.net = Answer(res),
                              !.pending = IF Cacheable(res) THEN ToStore(call[c], res) ELSE @ ],
                          liveResponse(res, "retrying")) ]
    /\ UNCHANGED << store, now, ticks >>

\* fetchRetry, lines 214-216
RetryResolve(c, res) ==
    /\ call[c].pc = "retry"
    /\ call' = [ call EXCEPT ![c] =
                   Settle([ @ EXCEPT !.net = Answer(res) ], liveResponse(res, "retrying")) ]
    /\ UNCHANGED << store, now, ticks >>

\* fetchRetry, lines 217-227
onRetryError(rec, message, t) ==
    IF rec.n > 0
    THEN [ rec EXCEPT !.pc = "retryWait",
                      !.deadline = t + TimerDelay(fetchRetryDelay(retryDelayOf(rec.in.options))) ]
    ELSE Settle(rec, Rejected(message))

RetryReject(c, message) ==
    /\ call[c].pc = "retry"
    /\ call' = [ call EXCEPT ![c] =
                   onRetryError([ @ EXCEPT !.net = Failure(message) ], message, now) ]
    /\ UNCHANGED << store, now, ticks >>

\* a variant of wrappedFetch: the count of attempts that remain is not decreased
wrappedFetchKeepingCount(rec) ==
    [ WithFetch(rec, StripNulls(rec.in.options)) EXCEPT !.pc = "retry", !.deadline = 0 ]

\* fetchRetry, lines 220-222: wrappedFetch(--n)
wrappedFetch(rec) ==
    [ WithFetch(rec, StripNulls(rec.in.options)) EXCEPT
        !.pc = "retry", !.deadline = 0, !.n = @ - 1 ]

RetryTimer(c) ==
    /\ call[c].pc = "retryWait"
    /\ now >= call[c].deadline
    /\ call' = [ call EXCEPT ![c] = wrappedFetch(@) ]
    /\ UNCHANGED << store, now, ticks >>

\* line 51: the promise of fetch(url, options) is the promise returned
PlainResolve(c, res) ==
    /\ call[c].pc = "plain"
    /\ call' = [ call EXCEPT ![c] =
                   Settle([ @ EXCEPT !.first = "ok", !.net = Answer(res) ],
                          liveResponse(res, "fetch")) ]
    /\ UNCHANGED << store, now, ticks >>

PlainReject(c, message) ==
    /\ call[c].pc = "plain"
    /\ call' = [ call EXCEPT ![c] =
                   Settle([ @ EXCEPT !.first = message, !.net = Failure(message) ],
                          Rejected(message)) ]
    /\ UNCHANGED << store, now, ticks >>

\* lines 146-152: the record that is stored
contentToStore(pending, t) ==
    Stringify([ status |-> pending.status, statusText |-> pending.statusText,
                contentType |-> pending.contentType, content |-> pending.content,
                storedAt |-> t ])

\* a variant of setItem: an item already under the key is kept
setItemIfAbsent(items, pending, t) ==
    IF items[pending.provider][pending.key] # NoItem THEN items
    ELSE [ items EXCEPT ![pending.provider][pending.key] = contentToStore(pending, t) ]

\* line 155: storage.setItem(cacheKey, contentToStore)
setItem(items, pending, t) ==
    [ items EXCEPT ![pending.provider][pending.key] = contentToStore(pending, t) ]

\* lines 144-156: the body of the clone has been read, the record is stored
WriteBack(c) ==
    /\ call[c].pending.on
    /\ store' = setItem(store, call[c].pending, now)
    /\ call' = [ call EXCEPT ![c].pending = NoPending,
                             ![c].sets[call[c].pending.provider] = @ + 1,
                             ![c].written = contentToStore(call[c].pending, now) ]
    /\ UNCHANGED << now, ticks >>

\* line 97: the promise returned by getItem rejects; the continuation of the
\* read is skipped and the promise of offlineFetch is rejected with that error
onGetItemRejected(rec) ==
    Settle([ rec EXCEPT !.got = RejectedItem ], Rejected(StorageErrorMessage))

ReadFails(c) ==
    /\ call[c].pc = "lookup"
    /\ call' = [ call EXCEPT ![c] = onGetItemRejected(@) ]
    /\ UNCHANGED << store, now, ticks >>

\* line 97: getItem throws, and offlineFetch throws with it
onGetItemThrown(rec, in) ==
    Settle([ rec EXCEPT !.gets[storageOf(in.options)] = @ + 1, !.got = ThrownItem ],
           Thrown(StorageErrorMessage))

DispatchThrows(c, in) ==
    /\ Free(c)
    /\ \A d \in Calls : d < c => ~ Free(d)
    /\ validate(in) = ""
    /\ OfflineEngaged(in.options)
    /\ call' = [ call EXCEPT ![c] =
                   onGetItemThrown([ IdleCall EXCEPT !.in = in,
                                                     !.after = { d \in Calls : call[d].pc = "done" } ],
                                   in) ]
    /\ UNCHANGED << store, now, ticks >>

\* a variant of onWriteError: the error of the write reaches the caller
onWriteErrorSurfaced(rec, called) ==
    [ rec EXCEPT !.pending = NoPending,
                 !.lost = TRUE,
                 !.sets[rec.pending.provider] = IF called THEN @ + 1 ELSE @,
                 !.result = Rejected(StorageErrorMessage) ]

\* lines 144-156: the body of the clone cannot be read (setItem is not called),
\* or setItem is called and fails; the promise of that chain is kept by nobody
onWriteError(rec, called) ==
    [ rec EXCEPT !.pending = NoPending,
                 !.lost = TRUE,
                 !.sets[rec.pending.provider] = IF called THEN @ + 1 ELSE @ ]

WriteFails(c, called) ==
    /\ call[c].pending.on
    /\ call' = [ call EXCEPT ![c] = onWriteError(@, called) ]
    /\ UNCHANGED << store, now, ticks >>

\* another writer of the provider leaves a string that is not JSON under the
\* key of the request
Spoil ==
    /\ store["sessionStorage"][requestHash(UrlA, OptionsObject("absent", NoOffline))] # GarbageItem
    /\ store' = [ store EXCEPT
                    !["sessionStorage"][requestHash(UrlA, OptionsObject("absent", NoOffline))] =
                        GarbageItem ]
    /\ UNCHANGED << call, now, ticks >>

\* the caller has taken the outcome: the slot can hold another invocation
Return(c) ==
    /\ call[c].pc = "done"
    /\ call' = [ call EXCEPT ![c] =
                   [ IdleCall EXCEPT !.late = call[c].late, !.pending = call[c].pending ] ]
    /\ UNCHANGED << store, now, ticks >>

\* the deadlines of the timers that are set
Deadlines == { call[c].deadline : c \in { d \in Calls : call[d].pc \in { "live", "retryWait" } } }

\* time passes: by one millisecond, or up to the deadline of a timer
Tick(dt) ==
    /\ ticks < MaxTicks
    /\ dt > 0
    /\ now' = now + dt
    /\ ticks' = ticks + 1
    /\ UNCHANGED << call, store >>

(* ---------------------------------------------------------------------- *)
(* Inputs and specifications                                               *)
(* ---------------------------------------------------------------------- *)

\* invocations that fail validation or that do not engage the offline option
PlainInputs ==
    { Input(EmptyUrl, OptionsOfKind("undefined"), FALSE, TRUE),
      Input(EmptyUrl, OptionsObject("absent", OfflineTrue), FALSE, FALSE),
      Input(UrlA, OptionsOfKind("nonobject"), FALSE, TRUE),
      Input(UrlA, OptionsOfKind("nonobject"), FALSE, FALSE),
      Input(UrlA, OptionsOfKind("undefined"), FALSE, FALSE),
      Input(UrlA, OptionsObject("absent", OfflineTrue), FALSE, FALSE),
      Input(UrlA, OptionsOfKind("undefined"), FALSE, TRUE),
      Input(UrlA, OptionsOfKind("undefined"), TRUE, TRUE),
      Input(UrlA, OptionsOfKind("null"), FALSE, TRUE),
      Input(UrlB, OptionsObject("POST", NoOffline), FALSE, TRUE),
      Input(UrlA, OptionsObject("null", OfflineFalse), TRUE, TRUE),
      InputWithoutFetch(EmptyUrl, OptionsObject("absent", OfflineTrue)),
      InputWithoutFetch(UrlA, OptionsOfKind("nonobject")),
      InputWithoutFetch(UrlA, OptionsOfKind("undefined")),
      InputWithoutFetch(UrlA, OptionsObject("absent", OfflineTrue)) }

\* the offline options of the invocations of Spec: those that decide between
\* the cache and the network, and those that decide the retries (retries: 0
\* among them)
OfflineOptionsSet ==
    { OfflineTrue }
        \cup { OfflineObject("absent", to, None, None, ex, rn, FALSE) :
                 to \in { None, Some(1) }, ex \in { None, Some(1) }, rn \in BOOLEAN }
        \cup { OfflineObject("absent", to, re, rd, None, FALSE, FALSE) :
                 to \in { None, Some(1) }, re \in { None, Some(1), Some(2) },
                 rd \in { None, Some(1) } }
        \cup { OfflineObject("absent", Some(1), re, None, None, TRUE, FALSE) :
                 re \in { Some(1), Some(2) } }
        \cup { OfflineObject("absent", None, Some(0), None, None, FALSE, FALSE) }

EngagedInputs ==
    { Input(UrlA, OptionsObject("absent", off), isOffline, TRUE) :
        off \in OfflineOptionsSet, isOffline \in BOOLEAN }

Inputs == PlainInputs \cup EngagedInputs

\* one invocation at a time: the caller awaits each outcome before the next call
DispatchNext(c) ==
    /\ \A d \in Calls \ { c } : call[d].pc = "idle"
    /\ \E in \in Inputs : Dispatch(c, in)

\* the steps of the invocation in slot c, the network answering with one of
\* responses or failing with one of errors
Step(c, responses, errors) ==
    \/ Lookup(c)
    \/ \E res \in responses : LiveResolve(c, res)
    \/ \E message \in errors : LiveReject(c, message)
    \/ Timeout(c)
    \/ LateSettle(c)
    \/ \E res \in responses : RetryResolve(c, res)
    \/ \E message \in errors : RetryReject(c, message)
    \/ RetryTimer(c)
    \/ \E res \in responses : PlainResolve(c, res)
    \/ \E message \in errors : PlainReject(c, message)
    \/ WriteBack(c)

Advance == \E dt \in { 1 } \cup { d - now : d \in Deadlines } : Tick(dt)

Next ==
    \/ \E c \in Calls : DispatchNext(c)
    \/ \E c \in Calls : Step(c, Responses, NetErrors)
    \/ \E c \in Calls : Return(c)
    \/ Advance

Spec == Init /\ [][Next]_vars

\* Invocations of one request that overlap or follow each other, each kept
\* after it has settled: with a window of expiry, with renew, with a short
\* timeout, offline, with expires 0 and -1, and with a timeout of -1 and of 0
PairInputs ==
    { Input(UrlA, OptionsObject("absent", OfflineObject("absent", None, None, None, Some(1), FALSE, FALSE)), FALSE, TRUE),
      Input(UrlA, OptionsObject("absent", OfflineObject("absent", None, None, None, Some(1), TRUE, FALSE)), FALSE, TRUE),
      Input(UrlA, OptionsObject("absent", OfflineObject("absent", Some(1), Some(1), None, Some(1), TRUE, FALSE)), FALSE, TRUE),
      Input(UrlA, OptionsObject("absent", OfflineObject("absent", None, None, None, Some(1), FALSE, FALSE)), TRUE, TRUE),
      Input(UrlA, OptionsObject("absent", OfflineObject("absent", None, None, None, Some(0), FALSE, FALSE)), FALSE, TRUE),
      Input(UrlA, OptionsObject("absent", OfflineObject("absent", None, None, None, Some(-1), FALSE, FALSE)), FALSE, TRUE),
      Input(UrlA, OptionsObject("absent", OfflineObject("absent", Some(-1), None, None, Some(1), FALSE, FALSE)), FALSE, TRUE),
      Input(UrlA, OptionsObject("absent", OfflineObject("absent", Some(0), None, None, Some(1), TRUE, FALSE)), FALSE, TRUE),
      Input(UrlA, OptionsOfKind("undefined"), FALSE, TRUE) }

PairResponses == { res \in Responses : res.contentType \in { "application/json", "Text/HTML; charset=utf-8" } }

PairErrors == { "Failed to fetch" }

DispatchPair(c) == \E in \in PairInputs : Dispatch(c, in)

NextPair ==
    \/ \E c \in Calls : DispatchPair(c)
    \/ \E c \in Calls : Step(c, PairResponses, PairErrors)
    \/ Advance

SpecPair == Init /\ [][NextPair]_vars

\* Invocations against a storage provider that can fail: getItem rejects or
\* throws, the key holds a string that is not JSON, the write is lost
FaultInputs ==
    { Input(UrlA, OptionsObject("absent", OfflineTrue), FALSE, TRUE),
      Input(UrlA, OptionsObject("absent", OfflineTrue), TRUE, TRUE),
      Input(UrlA, OptionsObject("absent", OfflineObject("absent", Some(1), Some(1), None, None, FALSE, FALSE)), FALSE, TRUE),
      Input(UrlA, OptionsOfKind("undefined"), FALSE, TRUE) }

DispatchFault(c) ==
    /\ \A d \in Calls \ { c } : call[d].pc = "idle"
    /\ \E in \in FaultInputs : Dispatch(c, in) \/ DispatchThrows(c, in)

NextFault ==
    \/ \E c \in Calls : DispatchFault(c)
    \/ \E c \in Calls : Step(c, Responses, NetErrors)
    \/ \E c \in Calls : ReadFails(c)
    \/ \E c \in Calls : \E called \in BOOLEAN : WriteFails(c, called)
    \/ Spoil
    \/ \E c \in Calls : Return(c)
    \/ Advance

SpecFault == Init /\ [][NextFault]_vars

\* Invocations that differ in url, method, storage provider and key generator,
\* one after the other, each kept after it has settled
KeyInputs ==
    { Input(UrlA, OptionsObject(m, OfflineTrue), FALSE, TRUE) : m \in Methods }
        \cup { Input(UrlB, OptionsObject("absent", OfflineTrue), FALSE, TRUE),
               Input(UrlA, OptionsObject("absent", OfflineObject("localStorage", None, None, None, None, FALSE, FALSE)), FALSE, TRUE),
               Input(UrlA, OptionsObject("POST", OfflineObject("absent", None, None, None, None, FALSE, TRUE)), FALSE, TRUE),
               Input(UrlB, OptionsObject("absent", OfflineObject("localStorage", None, None, None, None, FALSE, TRUE)), FALSE, TRUE),
               Input(UrlA, OptionsObject("absent", OfflineObject("absent", Some(1), Some(1), None, None, FALSE, FALSE)), FALSE, TRUE),
               Input(UrlA, OptionsOfKind("undefined"), FALSE, TRUE) }

KeyResponses == PairResponses

KeyErrors == { "Failed to fetch" }

\* the caller awaits the outcome of an invocation, and the end of what it
\* started, before the next call
DispatchKeys(c) ==
    /\ \A d \in Calls \ { c } : call[d].pc \in { "idle", "done" } /\ ~ call[d].late /\ ~ call[d].pending.on
    /\ \E in \in KeyInputs : Dispatch(c, in)

NextKeys ==
    \/ \E c \in Calls : DispatchKeys(c)
    \/ \E c \in Calls : Step(c, KeyResponses, KeyErrors)
    \/ Advance

SpecKeys == Init /\ [][NextKeys]_vars

\* Invocations whose fetch may never settle.  The storage read is continued
\* and timers that are set fire: time reaches every deadline
LiveInputs ==
    { Input(UrlA, OptionsObject("absent", OfflineTrue), FALSE, TRUE),
      Input(UrlA, OptionsObject("absent", OfflineObject("absent", Some(1), Some(1), Some(1), None, FALSE, FALSE)), FALSE, TRUE),
      Input(UrlA, OptionsOfKind("undefined"), FALSE, TRUE) }

LiveResponses == { res \in Responses : res.contentType = "application/json" /\ res.status = 200 }

DispatchLive(c) == \E in \in LiveInputs : Dispatch(c, in)

\* time passes up to the deadline of a timer that is set
Fire ==
    /\ \E d \in Deadlines : d > now /\ now' = d
    /\ UNCHANGED << call, store, ticks >>

NextLive ==
    \/ \E c \in Calls : DispatchLive(c)
    \/ \E c \in Calls : Step(c, LiveResponses, PairErrors)
    \/ Fire

SpecLive ==
    /\ Init
    /\ [][NextLive]_vars
    /\ WF_vars(Fire)
    /\ \A c \in Calls : WF_vars(Lookup(c)) /\ WF_vars(Timeout(c)) /\ WF_vars(RetryTimer(c))

\* Invocations of one request that overlap and follow each other, the slot of
\* an invocation that has been returned being taken again: with a window of
\* expiry, and with renew, a short timeout and a retry
SeriesInputs ==
    { Input(UrlA, OptionsObject("absent", OfflineObject("absent", None, None, None, Some(1), FALSE, FALSE)), FALSE, TRUE),
      Input(UrlA, OptionsObject("absent", OfflineObject("absent", Some(1), Some(1), None, Some(1), TRUE, FALSE)), FALSE, TRUE),
      Input(UrlA, OptionsOfKind("undefined"), FALSE, TRUE) }

DispatchSeries(c) == \E in \in SeriesInputs : Dispatch(c, in)

NextSeries ==
    \/ \E c \in Calls : DispatchSeries(c)
    \/ \E c \in Calls : Step(c, PairResponses, PairErrors)
    \/ \E c \in Calls : Return(c)
    \/ Advance

SpecSeries == Init /\ [][NextSeries]_vars

(* ---------------------------------------------------------------------- *)
(* Properties                                                              *)
(* ---------------------------------------------------------------------- *)

\* the arguments pass validation
ValidArguments(in) == in.url # EmptyUrl /\ in.options.kind # "nonobject" /\ in.hasFetch

\* options is absent, or options.offline is absent or falsy
OfflineUnset(options) ==
    \/ options.kind \in { "undefined", "null" }
    \/ options.kind = "object" /\ options.offline.kind \in { "absent", "false" }

\* rec is an invocation that engages the offline option
EngagedCall(rec) ==
    /\ rec.pc # "idle"
    /\ ValidArguments(rec.in)
    /\ rec.in.options.kind = "object"
    /\ rec.in.options.offline.kind \in { "true", "object" }

Engaged(c) == EngagedCall(call[c])

\* the invocation in slot c was resolved with the response res of fetch
ResolvedWith(c, res) ==
    /\ call[c].result.kind = "resolved"
    /\ call[c].result.status = res.status
    /\ call[c].result.statusText = res.statusText
    /\ call[c].result.contentType = res.contentType
    /\ call[c].result.body = res.body

\* the invocation in slot c was resolved with the record stored as item
ResolvedWithRecord(c, item) ==
    /\ call[c].result.kind = "resolved"
    /\ call[c].result.status = item.text[1]
    /\ call[c].result.body = item.text[4]

NumberOfGets(c) == call[c].gets["sessionStorage"] + call[c].gets["localStorage"]

NumberOfSets(c) == call[c].sets["sessionStorage"] + call[c].sets["localStorage"]

\* C1: every response returned from a live fetch with the offline option
\* engaged carries the header x-offline-cache: MISS
C1_LiveCarriesMiss ==
    \A c \in Calls :
        (Engaged(c) /\ call[c].pc = "done" /\ call[c].result.kind = "resolved" /\ call[c].net.ok)
            => call[c].result.xOfflineCache = "MISS"

\* C2: every response served from the cache (offline, fresh, or after a
\* timeout) carries the header x-offline-cache: HIT
C2_CacheCarriesHit ==
    \A c \in Calls :
        (Engaged(c) /\ call[c].pc = "done" /\ call[c].result.kind = "resolved"
           /\ call[c].result.from \in { "cache (offline)", "cache", "cache (timedout)" })
            => call[c].result.xOfflineCache = "HIT"

\* C3: with the offline option unset, an invocation is one call of fetch with
\* the same url and options, whose outcome is returned as it is: no header, no
\* timer, no retry, no read and no write of storage
C3_PlainFetch ==
    \A c \in Calls :
        (call[c].pc # "idle" /\ ValidArguments(call[c].in) /\ OfflineUnset(call[c].in.options))
            => /\ call[c].pc \in { "plain", "done" }
               /\ call[c].fetches = 1
               /\ call[c].fetchArgs = { << call[c].in.url, call[c].in.options >> }
               /\ NumberOfGets(c) = 0
               /\ NumberOfSets(c) = 0
               /\ ~ call[c].pending.on
               /\ call[c].deadline = 0
               /\ ~ call[c].late
               /\ call[c].pc = "done" =>
                    IF call[c].net.ok
                    THEN ResolvedWith(c, call[c].net) /\ call[c].result.xOfflineCache = "none"
                    ELSE call[c].result.kind = "rejected"
                            /\ call[c].result.error = call[c].net.message

C3_Witness ==
    \E c \in Calls :
        /\ call[c].pc = "done"
        /\ call[c].in.options.kind = "object"
        /\ call[c].in.options.offline.kind = "false"
        /\ call[c].net.ok
        /\ call[c].result.body = "b2"

\* C4: with a record under the key and the offline indicator asserted, an
\* invocation never calls fetch and resolves with the body of the record,
\* whatever expires and renew are
C4_OfflineOverride ==
    \A c \in Calls :
        (Engaged(c) /\ call[c].in.isOffline /\ call[c].got # NoItem)
            => /\ call[c].fetches = 0
               /\ call[c].pc \in { "lookup", "done" }
               /\ call[c].pc = "done" => ResolvedWithRecord(c, call[c].got)

C4_Witness ==
    \E c \in Calls :
        /\ Engaged(c)
        /\ call[c].pc = "done"
        /\ call[c].in.isOffline
        /\ call[c].got # NoItem
        /\ call[c].in.options.offline.renew
        /\ call[c].result.body = "b2"

\* C5: offline without a record under the key: storage is read once, then the
\* live fetch is made and its response returned; the invocation is rejected
\* only with the error of the network or of the timer
C5_OfflineWithoutRecord ==
    \A c \in Calls :
        (Engaged(c) /\ call[c].in.isOffline /\ call[c].got = NoItem)
            => /\ NumberOfGets(c) = 1
               /\ call[c].pc # "lookup" => call[c].fetches >= 1
               /\ (call[c].pc = "done" /\ call[c].net.ok) => ResolvedWith(c, call[c].net)
               /\ (call[c].pc = "done" /\ ~ call[c].net.ok) =>
                    /\ call[c].result.kind = "rejected"
                    /\ call[c].result.error \in NetErrors

C5_Witness ==
    \E c \in Calls :
        /\ Engaged(c)
        /\ call[c].pc = "done"
        /\ call[c].in.isOffline
        /\ call[c].got = NoItem
        /\ call[c].first = "ok"
        /\ call[c].result.status = 299

\* the response is one the claims call cacheable: 2xx, JSON or text
CacheableResult(result) ==
    /\ result.status \in 200 .. 299
    /\ result.contentType \in { "application/json", "Text/HTML; charset=utf-8", "text/html" }

\* c is a second invocation of the request of d, called after d had returned
\* a live cacheable response, the window of expiry e not having elapsed
SecondWithinWindow(c, d, e) ==
    /\ c # d
    /\ d \in call[c].after
    /\ Engaged(c)
    /\ call[c].in = call[d].in
    /\ call[c].in.options.offline.expires = Some(e)
    /\ e > 0
    /\ call[d].result.kind = "resolved"
    /\ call[d].result.from = "live"
    /\ CacheableResult(call[d].result)
    /\ call[c].pc = "done"
    /\ now <= e

C7_TimeoutFallback ==
    \A c \in Calls :
        call[c].first = "timer"
            => /\ call[c].pc = "done"
               /\ call[c].fetches = 1
               /\ IF call[c].got # NoItem
                  THEN ResolvedWithRecord(c, call[c].got)
                  ELSE call[c].result.kind = "rejected"
                          /\ call[c].result.error = TimedOutMessage

C7_Witness ==
    \E c \in Calls :
        /\ call[c].first = "timer"
        /\ call[c].got # NoItem
        /\ call[c].pc = "done"
        /\ call[c].in.options.offline.retries = Some(2)

\* C8: a first attempt that fails with a network error, followed by attempts
\* that all fail, makes exactly `retries` further calls of fetch and is
\* rejected with the last error
C8_RetryBound ==
    \A c \in Calls :
        (Engaged(c) /\ call[c].pc = "done" /\ call[c].first = "Failed to fetch"
           /\ call[c].result.kind = "rejected" /\ call[c].in.options.offline.retries # None)
            => /\ call[c].fetches = 1 + call[c].in.options.offline.retries[1]
               /\ call[c].result.error = call[c].net.message

\* C9: after the first attempt timed out no step of the invocation calls fetch
C9_TimeoutNotRetried ==
    [][ \A c \in Calls :
          (EngagedCall(call'[c]) /\ call'[c].first \in { "timer", TimedOutMessage })
              => /\ call'[c].pc = "done"
                 /\ call'[c].fetches = 1
                 /\ call[c].pc \in { "live", "done" } ]_vars

C9_Witness ==
    \E c \in Calls :
        /\ call[c].first = "timer"
        /\ call[c].got = NoItem
        /\ call[c].pc = "done"
        /\ call[c].in.options.offline.retries = Some(2)
        /\ call[c].in.options.offline.retryDelay = Some(1)

\* C10: with a record under the key, a live fetch that fails with a network
\* error (on the first attempt and on every retry) resolves with the record
C10_NetworkErrorFallback ==
    \A c \in Calls :
        (Engaged(c) /\ call[c].pc = "done" /\ call[c].got # NoItem
           /\ call[c].first = "Failed to fetch" /\ ~ call[c].net.ok)
            => ResolvedWithRecord(c, call[c].got)

\* C11: with expires -1 or not given, an invocation made online with a record
\* under the key calls fetch all the same, and resolves with the record only
\* after the timer of that fetch has fired
C11_AlwaysRevalidate ==
    \A c \in Calls :
        (/\ Engaged(c)
         /\ ~ call[c].in.isOffline
         /\ call[c].in.options.offline.expires \in { None, Some(-1) }
         /\ call[c].got # NoItem
         /\ call[c].pc \notin { "idle", "lookup" })
            => /\ call[c].fetches >= 1
               /\ call[c].result.from \notin { "cache", "cache (offline)" }

\* the response the invocation in slot c resolved with is one fetch answered
\* with (on the first attempt or on a retry), 2xx and JSON or text
ResolvedLiveCacheable(c) ==
    /\ call[c].pc = "done"
    /\ call[c].result.kind = "resolved"
    /\ call[c].net.ok
    /\ ResolvedWith(c, call[c].net)
    /\ call[c].result.from \in { "live", "retrying" }
    /\ CacheableResult(call[c].result)

\* the writes of the invocation in slot c: those made and the one under way
WritesIssued(c) == NumberOfSets(c) + (IF call[c].pending.on THEN 1 ELSE 0)

\* C12: an invocation that found no record and resolves with a cacheable live
\* response writes to storage exactly once
C12_ExactlyOneWrite ==
    \A c \in Calls :
        (Engaged(c) /\ call[c].got = NoItem /\ ResolvedLiveCacheable(c))
            => WritesIssued(c) = 1

CacheableFields(status, contentType) ==
    /\ status \in 200 .. 299
    /\ contentType \in { "application/json", "Text/HTML; charset=utf-8", "text/html" }

\* C14: every record written, being written or held by a provider has a status
\* in [200,299] and a content type of JSON or text and is the live response of
\* the invocation that wrote it; a live response with another status or
\* another (or no) content type causes no write
C14_CacheabilityInvariant ==
    /\ \A p \in Providers : \A k \in Keys :
          store[p][k] # NoItem => CacheableFields(store[p][k].text[1], store[p][k].text[3])
    /\ \A c \in Calls :
          /\ call[c].pending.on =>
                CacheableFields(call[c].pending.status, call[c].pending.contentType)
          /\ call[c].written # NoItem =>
                CacheableFields(call[c].written.text[1], call[c].written.text[3])
          /\ (call[c].pc = "done" /\ WritesIssued(c) > 0) =>
                /\ call[c].net.ok
                /\ CacheableFields(call[c].net.status, call[c].net.contentType)
                /\ call[c].pending.on =>
                      /\ call[c].pending.status = call[c].net.status
                      /\ call[c].pending.content = call[c].net.body
                /\ call[c].written # NoItem =>
                      /\ call[c].written.text[1] = call[c].net.status
                      /\ call[c].written.text[4] = call[c].net.body
          /\ (call[c].pc = "done" /\ call[c].net.ok
                 /\ ~ CacheableFields(call[c].net.status, call[c].net.contentType)) =>
                WritesIssued(c) = 0 /\ call[c].written = NoItem

C14_Witness ==
    \E c \in Calls : \E k \in Keys :
        /\ Engaged(c)
        /\ call[c].pc = "done"
        /\ call[c].first = "ok"
        /\ call[c].net.contentType = "image/png"
        /\ WritesIssued(c) = 0
        /\ store["sessionStorage"][k] # NoItem
        /\ store["sessionStorage"][k].text[3] = "Text/HTML; charset=utf-8"

\* C15: a live response of the first attempt whose status is not 2xx or whose
\* content type is not JSON or text is what the invocation resolves with: it
\* is not rejected, not retried, not replaced by a record, and nothing is stored
C15_NonCacheableReturnedLive ==
    \A c \in Calls :
        (/\ Engaged(c)
         /\ call[c].first = "ok"
         /\ ~ CacheableFields(call[c].net.status, call[c].net.contentType))
            => /\ call[c].pc = "done"
               /\ ResolvedWith(c, call[c].net)
               /\ call[c].result.from = "live"
               /\ call[c].fetches = 1
               /\ WritesIssued(c) = 0
               /\ call[c].written = NoItem

C15_Witness ==
    \E c \in Calls :
        /\ Engaged(c)
        /\ call[c].first = "ok"
        /\ call[c].got # NoItem
        /\ call[c].net.status = 404
        /\ call[c].result.status = 404
        /\ call[c].pc = "done"

\* C16: an invocation with the offline option engaged reads storage once, on
\* the provider of its options; while the read is pending it has called fetch
\* zero times, the step that calls fetch first is the continuation of the read,
\* and the record that continuation decided with is the one that was read
C16_ReadBeforeFetch ==
    /\ [] (\A c \in Calls :
              Engaged(c) =>
                  /\ NumberOfGets(c) = 1
                  /\ call[c].gets[storageOf(call[c].in.options)] = 1
                  /\ call[c].pc = "lookup" => (call[c].fetches = 0 /\ call[c].fetchArgs = {})
                  /\ call[c].fetches >= 1 =>
                        IF call[c].got = NoItem
                        THEN call[c].cachedItem = NoItem
                        ELSE /\ call[c].cachedItem.status = call[c].got.text[1]
                             /\ call[c].cachedItem.content = call[c].got.text[4]
                             /\ call[c].cachedItem.storedAt = call[c].got.text[5])
    /\ [][ \A c \in Calls :
              (EngagedCall(call'[c]) /\ call'[c].fetches >= 1 /\ call[c].fetches = 0)
                  => (call[c].pc = "lookup" /\ call[c].in = call'[c].in) ]_vars

C16_Witness ==
    \E c \in Calls :
        /\ Engaged(c)
        /\ call[c].pc = "live"
        /\ call[c].fetches = 1
        /\ call[c].got # NoItem
        /\ call[c].in.options.offline.renew
        /\ NumberOfGets(c) = 1

\* the read of storage failed: getItem rejected or threw, or what it returned
\* cannot be decoded
ReadFailed(c) == call[c].got \in { RejectedItem, ThrownItem, GarbageItem }

\* C17: an invocation whose read of storage fails goes on to the live fetch as
\* if there were no record, and its outcome is never the error of the read
C17_ReadFailureHidden ==
    \A c \in Calls :
        (Engaged(c) /\ ReadFailed(c) /\ call[c].pc \notin { "idle", "lookup" })
            => /\ call[c].fetches >= 1
               /\ call[c].result.kind # "thrown"
               /\ call[c].result.error \notin { StorageErrorMessage, SyntaxErrorMessage }

\* C18: the outcome of an invocation whose first attempt got a response is that
\* response, whether the write it started is still under way, was made, or
\* failed (in the body read of the clone or in setItem); the step that ends the
\* write, well or badly, changes nothing of the outcome
C18_WriteFailureHidden ==
    /\ [] (\A c \in Calls :
              (Engaged(c) /\ call[c].first = "ok") =>
                  /\ call[c].pc = "done"
                  /\ ResolvedWith(c, call[c].net)
                  /\ call[c].result.from = "live"
                  /\ call[c].result.error = "")
    /\ [][ \A c \in Calls :
              (call[c].pending.on /\ ~ call'[c].pending.on)
                  => (call'[c].result = call[c].result /\ call'[c].pc = call[c].pc) ]_vars

C18_Witness ==
    \E c \in Calls :
        /\ Engaged(c)
        /\ call[c].first = "ok"
        /\ call[c].pc = "done"
        /\ call[c].lost
        /\ NumberOfSets(c) = 1
        /\ call[c].written = NoItem
        /\ call[c].result.body = "b2"

\* the arguments or the environment fail a check of the validation
InvalidArguments(in) == in.url = EmptyUrl \/ in.options.kind = "nonobject" \/ ~ in.hasFetch

\* C19: an invocation without a url, with options that are not an object, or
\* without a fetch is rejected at once with the error of the first check that
\* fails; fetch is not called, storage is neither read nor written, no timer is set
C19_ValidationRejects ==
    \A c \in Calls :
        (call[c].pc # "idle" /\ InvalidArguments(call[c].in))
            => /\ call[c].pc = "done"
               /\ call[c].result.kind = "rejected"
               /\ call[c].result.error =
                     IF call[c].in.url = EmptyUrl THEN "Please provide a URL"
                     ELSE IF call[c].in.options.kind = "nonobject"
                     THEN "If defined, options must be of type object"
                     ELSE "fetch not supported, are you missing the window.fetch polyfill?"
               /\ call[c].fetches = 0
               /\ NumberOfGets(c) = 0
               /\ WritesIssued(c) = 0
               /\ call[c].deadline = 0

SelectedProvider(in) ==
    IF in.options.offline.kind = "object" /\ in.options.offline.storage # "absent"
    THEN in.options.offline.storage
    ELSE "sessionStorage"

\* the hash of method + '|' + url for the methods and urls of the model
KnownHash(method, url) ==
    IF method = "POST"
    THEN (IF url = UrlA THEN -1929119739 ELSE -1929119738)
    ELSE (IF url = UrlA THEN 67710235 ELSE 67710236)

\* the key of a request: what the generator returns when one is given, else
\* 'offline:' and the hash of the method (GET when none is given) and the url
ExpectedKey(in) ==
    IF in.options.offline.kind = "object" /\ in.options.offline.cacheKeyGenerator
    THEN [ ns |-> "myapp:", id |-> in.url ]
    ELSE [ ns |-> "offline:",
           id |-> << KnownHash(IF in.options.method = "POST" THEN "POST" ELSE "GET", in.url) >> ]

\* C21: an invocation calls getItem once on the provider its storage option
\* names and on no other, what it reads is what that provider holds, its write
\* goes to that provider, and a provider changes only by the write of an
\* invocation that named it
C21_ProviderSelection ==
    /\ [] (\A c \in Calls :
              Engaged(c) =>
                  /\ call[c].gets[SelectedProvider(call[c].in)] = 1
                  /\ \A p \in Providers \ { SelectedProvider(call[c].in) } :
                        call[c].gets[p] = 0 /\ call[c].sets[p] = 0
                  /\ call[c].pending.on => call[c].pending.provider = SelectedProvider(call[c].in))
    /\ [][ /\ \A c \in Calls :
               (call[c].pc = "idle" /\ EngagedCall(call'[c]))
                   => \E k \in Keys : call'[c].got = store[SelectedProvider(call'[c].in)][k]
           /\ \A p \in Providers :
               store'[p] # store[p]
                   => \E c \in Calls :
                         /\ call[c].pending.on
                         /\ ~ call'[c].pending.on
                         /\ SelectedProvider(call[c].in) = p
                         /\ call'[c].sets[p] = call[c].sets[p] + 1 ]_vars

C21_Witness ==
    \E c, d \in Calls :
        /\ Engaged(c)
        /\ Engaged(d)
        /\ SelectedProvider(call[c].in) = "localStorage"
        /\ SelectedProvider(call[d].in) = "sessionStorage"
        /\ call[c].in.url = call[d].in.url
        /\ call[c].sets["localStorage"] = 1
        /\ call[d].sets["sessionStorage"] = 1
        /\ call[c].got = NoItem
        /\ d \in call[c].after

\* C22: the item an invocation reads is the one under the key of its request,
\* the record it writes goes under that same key and changes no other, and
\* the key is the value of the generator when one is given, else a function
\* of the method (GET by default) and the url
C22_CacheKey ==
    /\ [] (\A c \in Calls :
              (Engaged(c) /\ call[c].pending.on) => call[c].pending.key = ExpectedKey(call[c].in))
    /\ [][ /\ \A c \in Calls :
               (call[c].pc = "idle" /\ EngagedCall(call'[c]))
                   => call'[c].got = store[SelectedProvider(call'[c].in)][ExpectedKey(call'[c].in)]
           /\ \A c \in Calls :
               (Engaged(c) /\ call[c].pending.on /\ call'[c].written # NoItem)
                   => /\ store'[SelectedProvider(call[c].in)][ExpectedKey(call[c].in)] = call'[c].written
                      /\ \A p \in Providers : \A k \in Keys :
                            (p # SelectedProvider(call[c].in) \/ k # ExpectedKey(call[c].in))
                                => store'[p][k] = store[p][k] ]_vars

C22_Witness ==
    \E c, d \in Calls :
        /\ Engaged(c)
        /\ Engaged(d)
        /\ d \in call[c].after
        /\ call[d].in.options.method = "null"
        /\ call[d].written # NoItem
        /\ store["sessionStorage"][[ ns |-> "offline:", id |-> << 67710235 >> ]] = call[d].written
        /\ call[c].in.options.offline.cacheKeyGenerator
        /\ call[c].in.options.method = "POST"
        /\ call[c].got = NoItem
        /\ call[c].written # NoItem
        /\ store["sessionStorage"][[ ns |-> "myapp:", id |-> call[c].in.url ]] = call[c].written

C24_Uncoordinated ==
    /\ [] (\A c, d \in Calls :
              (/\ c # d
               /\ Engaged(c)
               /\ Engaged(d)
               /\ ExpectedKey(call[c].in) = ExpectedKey(call[d].in)
               /\ SelectedProvider(call[c].in) = SelectedProvider(call[d].in)
               /\ call[c].got = NoItem
               /\ call[d].got = NoItem
               /\ call[c].pc \notin { "idle", "lookup" }
               /\ call[d].pc \notin { "idle", "lookup" })
                  => /\ call[c].fetches >= 1
                     /\ call[d].fetches >= 1
                     /\ (call[c].first = "ok"
                           /\ CacheableFields(call[c].net.status, call[c].net.contentType))
                          => WritesIssued(c) = 1)
    /\ [] (\A p \in Providers : \A k \in Keys :
              (store[p][k] # NoItem /\ \A c \in Calls : ~ call[c].pending.on)
                  => \E c \in Calls : call[c].written = store[p][k])
    /\ [][ \A c \in Calls :
              (Engaged(c) /\ call[c].pending.on /\ call'[c].written # NoItem)
                  => /\ store'[SelectedProvider(call[c].in)][ExpectedKey(call[c].in)] = call'[c].written
                     /\ call'[c].written.text[4] = call[c].net.body ]_vars

C24_Witness ==
    \E c, d \in Calls :
        /\ c # d
        /\ Engaged(c)
        /\ Engaged(d)
        /\ call[c].got = NoItem
        /\ call[d].got = NoItem
        /\ c \notin call[d].after
        /\ d \notin call[c].after
        /\ call[c].written # NoItem
        /\ call[d].written # NoItem
        /\ call[d].written.text[5] < call[c].written.text[5]
        /\ call[d].written.text[4] # call[c].written.text[4]
        /\ store["sessionStorage"][ExpectedKey(call[c].in)] = call[c].written

\* the expires option of the invocation, -1 when it is not given
ExpiresOption(in) ==
    IF in.options.offline.kind = "object" /\ in.options.offline.expires # None
    THEN in.options.offline.expires[1]
    ELSE -1

\* the record the invocation in slot c read had outlived the window of expiry
\* when the read was continued
ExpiredAtLookup(c) ==
    /\ ExpiresOption(call[c].in) > 0
    /\ call[c].at - call[c].got.text[5] > ExpiresOption(call[c].in)

\* the invocation in slot c has read a record and gone past its cache read
PastLookupWithRecord(c) ==
    /\ Engaged(c)
    /\ call[c].got # NoItem
    /\ call[c].pc \notin { "idle", "lookup" }

C27_DecisionOrder ==
    \A c \in Calls :
        PastLookupWithRecord(c)
            => IF call[c].in.isOffline
               THEN /\ call[c].pc = "done"
                    /\ call[c].fetches = 0
                    /\ call[c].result.from = "cache (offline)"
                    /\ ResolvedWithRecord(c, call[c].got)
               ELSE IF ~ call[c].in.options.offline.renew /\ ~ ExpiredAtLookup(c)
               THEN /\ call[c].pc = "done"
                    /\ call[c].fetches = 0
                    /\ call[c].result.from = "cache"
               ELSE /\ call[c].fetches >= 1
                    /\ call[c].result.from \notin { "cache", "cache (offline)" }

C27_Witness ==
    \E c \in Calls :
        /\ PastLookupWithRecord(c)
        /\ call[c].in.isOffline
        /\ call[c].in.options.offline.renew
        /\ ExpiredAtLookup(c)
        /\ call[c].result.from = "cache (offline)"
        /\ call[c].fetches = 0

C29_TimeoutRace ==
    /\ [] (\A c \in Calls :
              Engaged(c) =>
                  /\ call[c].first = "timer" =>
                        /\ call[c].pc = "done"
                        /\ call[c].fetches = 1
                        /\ call[c].net = NoAnswer
                        /\ WritesIssued(c) = 0
                        /\ call[c].written = NoItem
                        /\ IF call[c].got # NoItem
                           THEN call[c].result.from = "cache (timedout)"
                           ELSE /\ call[c].result.kind = "rejected"
                                /\ call[c].result.error = TimedOutMessage
                  /\ call[c].first \notin { "none", "timer" } => ~ call[c].late)
    /\ [][ \A c \in Calls :
              /\ (call[c].first # "none" /\ call'[c].pc # "idle")
                    => call'[c].first = call[c].first
              /\ (call[c].first = "timer" /\ call'[c].pc # "idle")
                    => (call'[c].result = call[c].result /\ call'[c].pending = call[c].pending)
              /\ (call[c].late /\ ~ call'[c].late)
                    => (call'[c] = [ call[c] EXCEPT !.late = FALSE ] /\ store' = store) ]_vars

C29_Witness ==
    \E c \in Calls :
        /\ Engaged(c)
        /\ call[c].first = "timer"
        /\ ~ call[c].late
        /\ call[c].pc = "done"
        /\ call[c].got = NoItem
        /\ call[c].result.kind = "rejected"
        /\ call[c].in.options.offline.timeout = Some(1)

\* C30: with a timeout option of 0 or less an invocation that goes live gives
\* fetch no time: its timer is due at once and its first attempt never ends
\* by the settlement of fetch
C30_NonPositiveTimeout ==
    \A c \in Calls :
        (/\ Engaged(c)
         /\ call[c].in.options.offline.timeout \in { Some(0), Some(-1) }
         /\ call[c].fetches >= 1)
            => /\ call[c].first \in { "none", "timer" }
               /\ call[c].pc = "live" => call[c].deadline = call[c].at

\* C25: every invocation with the offline option engaged settles in the end,
\* whether or not its calls of fetch ever settle, given that the storage read
\* is continued and that timers fire
C25_EventuallySettles ==
    \A c \in Calls : Engaged(c) ~> (call[c].pc = "done")

\* the retries option of the invocation, as it was given
RetriesOption(in) == in.options.offline.retries

\* C31: with retries: 0 a first attempt that fails with a network error ends
\* the invocation: fetch is not called again, and the invocation is rejected
\* with the error of that first attempt
C31_NoRetriesPropagates ==
    \A c \in Calls :
        (/\ Engaged(c)
         /\ RetriesOption(call[c].in) = Some(0)
         /\ call[c].first = "Failed to fetch")
            => /\ call[c].pc = "done"
               /\ call[c].fetches = 1
               /\ call[c].result.kind = "rejected"
               /\ call[c].result.error = call[c].first

\* C32: without a retries option (offline: true, or an object that leaves
\* retries out) an invocation whose calls of fetch all fail with a network
\* error is rejected after three retries: four calls of fetch in all
C32_DefaultRetries ==
    \A c \in Calls :
        (/\ Engaged(c)
         /\ RetriesOption(call[c].in) = None
         /\ call[c].first = "Failed to fetch"
         /\ call[c].pc = "done"
         /\ call[c].result.kind = "rejected")
            => call[c].fetches = 1 + 3

\* the invocation is in fetchRetry: an attempt is under way, or the timer
\* before the next attempt is set
InFetchRetry(rec) == rec.pc \in { "retry", "retryWait" }

\* C33: the attempts of fetchRetry follow each other.  fetch is called in
\* fetchRetry only when no attempt is under way, the attempt before it has
\* failed and the timer set at that failure has fired, and the count that
\* remains goes down by one with it; an attempt that fails with a count above
\* zero sets that timer and calls nothing; an attempt that succeeds resolves
\* the invocation with its response; a settled invocation calls fetch no more
C33_RetrySequencing ==
    /\ [] (\A c \in Calls :
              InFetchRetry(call[c])
                  => /\ call[c].first = "Failed to fetch"
                     /\ call[c].fetches >= 2
                     /\ call[c].result = NoResult
                     /\ call[c].pc = "retryWait" => (call[c].n > 0 /\ ~ call[c].net.ok))
    /\ [][ \A c \in Calls :
              /\ (InFetchRetry(call[c]) /\ call'[c].fetches # call[c].fetches)
                    => /\ call[c].pc = "retryWait"
                       /\ now >= call[c].deadline
                       /\ call'[c].pc = "retry"
                       /\ call'[c].fetches = call[c].fetches + 1
                       /\ call'[c].n = call[c].n - 1
              /\ (call[c].pc = "retry" /\ call'[c].pc = "retryWait")
                    => /\ call'[c].fetches = call[c].fetches
                       /\ call'[c].n = call[c].n
                       /\ call'[c].deadline >= now
              /\ (call[c].pc = "retry" /\ call'[c].net.ok)
                    => /\ call'[c].pc = "done"
                       /\ call'[c].result.kind = "resolved"
                       /\ call'[c].result.status = call'[c].net.status
                       /\ call'[c].result.body = call'[c].net.body
                       /\ call'[c].fetches = call[c].fetches
              /\ (call[c].pc = "retry" /\ call'[c].pc = "done" /\ ~ call'[c].net.ok)
                    => /\ call[c].n <= 0
                       /\ call'[c].result.kind = "rejected"
                       /\ call'[c].result.error = call'[c].net.message
              /\ (call[c].pc = "done" /\ call'[c].pc = "done")
                    => call'[c].fetches = call[c].fetches ]_vars

C33_Witness ==
    \E c \in Calls :
        /\ Engaged(c)
        /\ RetriesOption(call[c].in) = Some(2)
        /\ call[c].in.options.offline.retryDelay = Some(1)
        /\ call[c].pc = "done"
        /\ call[c].fetches = 4
        /\ call[c].n = 0
        /\ call[c].net.ok
        /\ call[c].result.from = "retrying"
        /\ now = 2

\* C34: an invocation that resolves with a cacheable response of fetch, on
\* the first attempt or on a retry after a network error, puts it under its
\* key: its write is under way, or it has stored a record with the content of
\* that response
C34_LiveResponseStored ==
    \A c \in Calls :
        (Engaged(c) /\ ResolvedLiveCacheable(c))
            => \/ call[c].pending.on /\ call[c].pending.content = call[c].result.body
               \/ /\ call[c].written # NoItem
                  /\ call[c].written.text[4] = call[c].result.body
                  /\ call[c].sets[SelectedProvider(call[c].in)] = 1

\* the invocation in slot c has been served the record it read, by the cache
\* read or after its timer fired
ServedFromCache(rec) == rec.result.from \in { "cache", "cache (offline)", "cache (timedout)" }

\* C35: a record served from the cache keeps its storedAt.  The store changes
\* only by the write that follows a live response, which stamps the record
\* with the time of the write; a step that serves a record leaves the store as
\* it is; so an invocation made online that reads a record older than
\* expires > 0 calls fetch, whatever was served from that record before
C35_HitsKeepStoredAt ==
    /\ [] (\A c \in Calls :
              (PastLookupWithRecord(c) /\ ~ call[c].in.isOffline /\ ExpiredAtLookup(c))
                  => /\ call[c].fetches >= 1
                     /\ call[c].result.from \notin { "cache", "cache (offline)" })
    /\ [][ /\ \A p \in Providers, k \in Keys :
                store'[p][k] # store[p][k]
                    => /\ store'[p][k].text[5] = now
                       /\ \E c \in Calls :
                             /\ call[c].pending.on
                             /\ call[c].pending.provider = p
                             /\ call[c].pending.key = k
                             /\ store'[p][k].text[4] = call[c].pending.content
                             /\ ~ call'[c].pending.on
           /\ \A c \in Calls :
                (~ ServedFromCache(call[c]) /\ ServedFromCache(call'[c]))
                    => /\ store' = store
                       /\ call'[c].pending = call[c].pending ]_vars

C35_Witness ==
    \E c, d \in Calls :
        /\ c # d
        /\ call[d].result.from = "cache"
        /\ call[d].at = 1
        /\ d \in call[c].after
        /\ call[c].got = call[d].got
        /\ PastLookupWithRecord(c)
        /\ ~ call[c].in.isOffline
        /\ ~ call[c].in.options.offline.renew
        /\ ExpiredAtLookup(c)
        /\ call[c].first = "ok"
        /\ call[c].fetches = 1

\* C36: a response of fetch that comes after the timer of the first attempt
\* has fired is dropped.  An invocation whose first attempt timed out never
\* resolves with a response of fetch and never writes; the step in which the
\* abandoned fetch settles leaves the store, the outcome of the invocation and
\* its writes as they are
C36_LateResponseDiscarded ==
    /\ [] (\A c \in Calls :
              (Engaged(c) /\ call[c].first = "timer")
                  => /\ call[c].result.from \notin { "live", "retrying", "fetch" }
                     /\ ~ call[c].pending.on
                     /\ NumberOfSets(c) = 0
                     /\ call[c].written = NoItem)
    /\ [][ \A c \in Calls :
              (call[c].late /\ ~ call'[c].late)
                  => /\ store' = store
                     /\ call'[c].result = call[c].result
                     /\ ~ call'[c].pending.on
                     /\ call'[c].sets = call[c].sets
                     /\ call'[c].written = call[c].written ]_vars

C36_Witness ==
    \E c \in Calls :
        /\ Engaged(c)
        /\ call[c].first = "timer"
        /\ ~ call[c].late
        /\ call[c].pc = "done"
        /\ call[c].got # NoItem
        /\ call[c].result.from = "cache (timedout)"
        /\ store[SelectedProvider(call[c].in)][ExpectedKey(call[c].in)] = call[c].got

\* C37: the record an invocation resolves with when its timer fires is the
\* one it read at its cache read.  The provider is read once, the step of the
\* timer reads nothing, and the outcome is made of the item read, whatever the
\* store holds under the key by then
C37_SnapshotOnTimeout ==
    /\ [] (\A c \in Calls :
              (Engaged(c) /\ call[c].first = "timer" /\ call[c].got # NoItem)
                  => /\ NumberOfGets(c) = 1
                     /\ call[c].result.from = "cache (timedout)"
                     /\ call[c].result.status = call[c].got.text[1]
                     /\ call[c].result.statusText = call[c].got.text[2]
                     /\ call[c].result.contentType = call[c].got.text[3]
                     /\ call[c].result.body = call[c].got.text[4])
    /\ [][ \A c \in Calls :
              (call[c].pc = "live" /\ call'[c].first = "timer")
                  => /\ call'[c].gets = call[c].gets
                     /\ call'[c].got = call[c].got
                     /\ call'[c].cachedItem = call[c].cachedItem
                     /\ store' = store ]_vars

C37_Witness ==
    \E c \in Calls :
        /\ Engaged(c)
        /\ call[c].in.options.offline.timeout = Some(1)
        /\ call[c].first = "timer"
        /\ call[c].got # NoItem
        /\ store[SelectedProvider(call[c].in)][ExpectedKey(call[c].in)] # call[c].got
        /\ store[SelectedProvider(call[c].in)][ExpectedKey(call[c].in)].text[5] > call[c].got.text[5]
        /\ store[SelectedProvider(call[c].in)][ExpectedKey(call[c].in)].text[5] <= call[c].at
        /\ store[SelectedProvider(call[c].in)][ExpectedKey(call[c].in)].text[4] # call[c].got.text[4]
        /\ call[c].result.body = call[c].got.text[4]

\* the first attempt of the invocation, made under the timer, got a response
FirstAttemptAnswered(rec) == EngagedCall(rec) /\ rec.first = "ok"

\* C38: only an invocation whose first attempt got a response writes.  An
\* invocation that is served a record, that is rejected (after its retries
\* too), that resolves with the response of a retry, that fails validation or
\* that does not engage the offline option calls setItem zero times and
\* starts no write; the store changes only by the write such a first attempt
\* started, and an item under a key is never taken away
C38_StorageFrame ==
    /\ [] (\A c \in Calls :
              (call[c].pc # "idle" /\ ~ FirstAttemptAnswered(call[c]))
                  => /\ WritesIssued(c) = 0
                     /\ call[c].written = NoItem)
    /\ [][ /\ \A p \in Providers, k \in Keys : store[p][k] # NoItem => store'[p][k] # NoItem
           /\ store' # store
                => \E c \in Calls :
                      /\ call[c].pending.on
                      /\ ~ call'[c].pending.on
                      /\ call'[c].sets[call[c].pending.provider] =
                             call[c].sets[call[c].pending.provider] + 1
           /\ \A c \in Calls :
                (call'[c].pending.on /\ ~ call[c].pending.on)
                    => /\ call[c].pc = "live"
                       /\ FirstAttemptAnswered(call'[c]) ]_vars

C38_Witness ==
    \E c \in Calls :
        /\ Engaged(c)
        /\ call[c].got # NoItem
        /\ call[c].first = "Failed to fetch"
        /\ call[c].pc = "done"
        /\ call[c].fetches = 3
        /\ call[c].result.kind = "rejected"
        /\ WritesIssued(c) = 0
        /\ store[SelectedProvider(call[c].in)][ExpectedKey(call[c].in)] = call[c].got

\* C39: the calls of fetch of one invocation with the offline option engaged
\* are bounded: none when it is served the record at the cache read, one when
\* its first attempt got a response or timed out, and at most retries + 2
\* when its first attempt failed with a network error and retries > 0
C39_FetchBound ==
    \A c \in Calls :
        Engaged(c)
            => /\ call[c].result.from \in { "cache", "cache (offline)" } => call[c].fetches = 0
               /\ call[c].first \in { "ok", "timer", TimedOutMessage } => call[c].fetches = 1
               /\ (/\ call[c].first = "Failed to fetch"
                   /\ RetriesOption(call[c].in) # None
                   /\ RetriesOption(call[c].in)[1] > 0)
                      => /\ call[c].fetches >= 2
                         /\ call[c].fetches <= RetriesOption(call[c].in)[1] + 2

C39_Witness ==
    \E c \in Calls :
        /\ Engaged(c)
        /\ RetriesOption(call[c].in) = Some(2)
        /\ call[c].first = "Failed to fetch"
        /\ call[c].pc = "done"
        /\ call[c].result.kind = "rejected"
        /\ call[c].fetches = 4
        /\ call[c].got = NoItem

====
